---- MODULE Spec2Model ----
(***************************************************************************)
(* A model of the email verifier: the /verify-email handler, the MX        *)
(* lookup, the probe scheduler customSmtpCheck and the single SMTP attempt *)
(* trySmtpConnection with its socket callbacks and timers.                 *)
(*                                                                         *)
(* Four iterations of the server are modelled, selected by impl:           *)
(*   "index"    src/index.js            (MX x ports x retries)             *)
(*   "part_001" src/unnamed/part_001, lines 205-371 (one try per MX)       *)
(*   "part_002" src/unnamed/part_002    (domain rules, static checks)      *)
(*   "api"      src/api/verify-email.js (the same, as a function handler)  *)
(*                                                                         *)
(* One request is followed from its arrival.  JavaScript runs one         *)
(* callback at a time: every action below is one turn of the event loop    *)
(* (a socket event, a timer) or one continuation of an await.  A           *)
(* continuation of a resolved promise is a microtask and runs before any   *)
(* further socket event or timer, which is what MicrotaskPending states.   *)
(*                                                                         *)
(* Spec lets the mail servers do anything; RepeatSpec sends one request    *)
(* twice to servers of one fixed behaviour.                                *)
(***************************************************************************)
EXTENDS Naturals, Sequences, FiniteSets

\* Largest number of MX records in a DNS answer.
MaxMx == 2

\* const maxRetries = 3;
maxRetries == 3

Impls == {"index", "part_001", "part_002", "api"}

\* The iterations that probe the mail server, and those with domain rules.
Probing == {"index", "part_001"}
Ruled == {"part_002", "api"}

\* const ports = [25, 587];  part_001 connects to port 25 only.
ports(i) == IF i = "index" THEN <<25, 587>> ELSE <<25>>

\* attempts per (exchanger, port): the retry loop of index.js; part_001 has none.
Retries(i) == IF i = "index" THEN maxRetries ELSE 1

Hosts == 1..MaxMx
Priorities == {5, 10}

UNDEF == "undefined"
NULL == "null"

(***************************************************************************)
(* Server replies.  A reply is a sequence of lines, a line a sequence of   *)
(* characters.  data.toString() is the lines joined by a line break.       *)
(***************************************************************************)
D220 == <<"2", "2", "0">>
D250 == <<"2", "5", "0">>
D550 == <<"5", "5", "0">>
D554 == <<"5", "5", "4">>
D450 == <<"4", "5", "0">>

Leads == {D220, D250, D550, D554, D450, <<"o", "k">>}

Texts == { <<>>,
           <<" ", "i", "d", " ", "2", "5", "0">>,
           <<" ", "i", "d", " ", "5", "5", "0">> }

ReplyLines == {c \o t : c \in Leads, t \in Texts}

\* One reply line, or two lines arriving in one chunk.
Responses ==
    {<<l>> : l \in ReplyLines}
      \cup {<<a, b>> : a \in {D450, D550, <<"o", "k">>}, b \in {D250, D550, D450}}

RECURSIVE toString(_)
toString(data) ==
    IF data = <<>> THEN <<>>
    ELSE IF Len(data) = 1 THEN Head(data)
    ELSE Head(data) \o <<"\n">> \o toString(Tail(data))

\* String.prototype.includes
includes(s, sub) ==
    \E i \in 1..(Len(s) + 1 - Len(sub)) : SubSeq(s, i, i + Len(sub) - 1) = sub

Accepted == [valid |-> "true", reason |-> "SMTP connection successful"]
Rejected == [valid |-> "false",
             reason |-> "SMTP rejected: user unknown or mailbox unavailable"]
Pending == [valid |-> UNDEF, reason |-> UNDEF]

\* The branch of the 'data' handler a reply takes: the result it resolves, or
\* Pending when neither branch matches (the handler then does nothing).
DataOutcome(text) ==
    IF includes(text, D250) \/ includes(text, D220) THEN Accepted
    ELSE IF includes(text, D550) \/ includes(text, D554) THEN Rejected
    ELSE Pending

(***************************************************************************)
(* mxRecords.sort((a, b) => a.priority - b.priority): a stable sort.       *)
(***************************************************************************)
RECURSIVE Insert(_, _)
Insert(sorted, r) ==
    IF sorted = <<>> THEN <<r>>
    ELSE IF r.priority < sorted[Len(sorted)].priority
         THEN Append(Insert(SubSeq(sorted, 1, Len(sorted) - 1), r), sorted[Len(sorted)])
         ELSE Append(sorted, r)

RECURSIVE InsertDescending(_, _)
InsertDescending(sorted, r) ==
    IF sorted = <<>> THEN <<r>>
    ELSE IF r.priority > sorted[Len(sorted)].priority
         THEN Append(InsertDescending(SubSeq(sorted, 1, Len(sorted) - 1), r),
                     sorted[Len(sorted)])
         ELSE Append(sorted, r)

RECURSIVE SortDescending(_)
SortDescending(records) ==
    IF records = <<>> THEN <<>>
    ELSE InsertDescending(SortDescending(SubSeq(records, 1, Len(records) - 1)),
                          records[Len(records)])

RECURSIVE SortAscending(_)
SortAscending(records) ==
    IF records = <<>> THEN <<>>
    ELSE Insert(SortAscending(SubSeq(records, 1, Len(records) - 1)),
                records[Len(records)])

\* const sortedMxRecords = mxRecords.sort((a, b) => a.priority - b.priority)
sortedMxRecords(records) == SortAscending(records)

(***************************************************************************)
(* The environment of one request.                                         *)
(***************************************************************************)
MxRecord == [exchange : Hosts, priority : Priorities]

\* The answers dns.resolveMx can give: lists of distinct exchangers, each
\* exchanger named by its place in the answer.
MxLists ==
    UNION { {s \in [1..n -> MxRecord] : \A i \in 1..n : s[i].exchange = i}
            : n \in 0..MaxMx }

\* ok = FALSE: dns.resolveMx rejects (ENOTFOUND, ENODATA, timeout).
DnsAnswers == {[ok |-> FALSE, records |-> <<>>]}
                \cup {[ok |-> TRUE, records |-> l] : l \in MxLists}

\* What deepEmailValidator.validate resolves to (valid is the conjunction of
\* its validators; reason names the first that failed), or that it throws.
Validated(regex, typo, disposable, mx, reason) ==
    [throws |-> FALSE, valid |-> regex /\ typo /\ disposable /\ mx,
     regex |-> regex, typo |-> typo, disposable |-> disposable, mx |-> mx,
     reason |-> reason]

NoResult == Validated(FALSE, FALSE, FALSE, FALSE, UNDEF)

ValidatorResults ==
    { Validated(TRUE, TRUE, TRUE, TRUE, UNDEF),
      Validated(FALSE, TRUE, TRUE, TRUE, "regex"),
      Validated(TRUE, FALSE, TRUE, TRUE, "typo"),
      Validated(TRUE, TRUE, FALSE, TRUE, "disposable"),
      Validated(TRUE, TRUE, TRUE, FALSE, "mx"),
      [NoResult EXCEPT !.throws = TRUE] }

(***************************************************************************)
(* The request.  An address is what the handler asks of it: whether        *)
(* isEmail accepts it, and its domain (the text after the @).              *)
(***************************************************************************)
Domains == {"gmail.com", "GMAIL.COM", "example.com", "Example.Com", "other.test"}

\* String.prototype.toLowerCase, on the domains at hand.
toLowerCase(d) ==
    CASE d = "GMAIL.COM" -> "gmail.com"
      [] d = "Example.Com" -> "example.com"
      [] OTHER -> d

\* const undeliverableDomains = [...]
undeliverableDomains ==
    {"example.com", "godaddy.com", "test.com", "example.org", "example.net",
     "invalid.com"}

\* The domains worth telling apart: index.js and part_001 hand the domain to
\* getMxRecords and never look at it.
DomainsOf(i) == IF i \in Ruled THEN Domains ELSE {"other.test"}

Address(ok, d) == [present |-> TRUE, isEmail |-> ok, domain |-> d]
NoAddress == [present |-> FALSE, isEmail |-> FALSE, domain |-> UNDEF]

\* app.post routes POST requests only; the function handler of
\* api/verify-email.js sees every method.
Requests(i) ==
    {[method |-> "POST", email |-> Address(ok, d)] :
        ok \in BOOLEAN, d \in DomainsOf(i)}
      \cup {[method |-> "POST", email |-> NoAddress]}
      \cup (IF i = "api"
            THEN {[method |-> "GET", email |-> Address(TRUE, "other.test")]}
            ELSE {})

\* What the mail servers of the domain may do with a connection: accept it,
\* refuse it, send a reply, close it, reset it.
AnyServer ==
    [connects |-> TRUE, refuses |-> TRUE, replies |-> Responses,
     ends |-> TRUE, resets |-> TRUE]

\* A server that refuses every connection, and the servers that accept it.
Refusing ==
    [connects |-> FALSE, refuses |-> TRUE, replies |-> {},
     ends |-> FALSE, resets |-> FALSE]
Accepting(replies, ends, resets) ==
    [connects |-> TRUE, refuses |-> FALSE, replies |-> replies,
     ends |-> ends, resets |-> resets]

\* Servers of one fixed behaviour: refuse; accept and stay silent; accept
\* and send one given reply; accept and close; accept and reset.
Servers ==
    {Refusing, Accepting({}, FALSE, FALSE), Accepting({}, TRUE, FALSE),
     Accepting({}, FALSE, TRUE)}
      \cup {Accepting({<<d>>}, FALSE, FALSE) : d \in {D250, D550, D450}}

NoResponse == [code |-> 0, status |-> UNDEF, willBounce |-> FALSE,
               reason |-> UNDEF, validSmtp |-> UNDEF]

VARIABLES
    impl,             \* which iteration of the server runs
    req,              \* the request
    deep,             \* what deepEmailValidator.validate does for the address
    dns,              \* what the DNS answers for the domain
    server,           \* what the mail servers of the domain do
    firstRes,         \* the response to an earlier, identical request
    abandoned,        \* the client has closed the inbound connection
    validations,      \* the number of deepEmailValidator.validate calls
    lookups,          \* the number of getMxRecords calls
    hpc,              \* the handler's position
    result,           \* deepEmailValidator's result
    mxRecords,        \* the handler's mxRecords
    res,              \* the HTTP response written
    cpc,              \* customSmtpCheck: "idle", "await", "returned"
    mxIdx, portIdx, attempt,   \* the three loop variables of customSmtpCheck
    lastError,        \* part_001's lastError
    customSmtpResult, \* what customSmtpCheck returned
    calls,            \* every trySmtpConnection call, with the valid it gave
    lastResult,       \* the result of the most recent trySmtpConnection call
    sockets,          \* the number of net.Socket objects connected
    sock,             \* the current socket
    written,          \* the commands written to the current socket
    outcome,          \* what the attempt's promise is resolved with
    consumed,         \* the await on the promise has resumed
    timeout,          \* the timer named timeout
    maxConnectionTime,\* the timer named maxConnectionTime
    lastData          \* the reply the 'data' handler is handling

vars == <<impl, req, deep, dns, server, firstRes, abandoned, validations, lookups,
          hpc, result, mxRecords, res, cpc, mxIdx, portIdx,
          attempt, lastError, customSmtpResult, calls, lastResult, sockets,
          sock, written, outcome, consumed, timeout, maxConnectionTime,
          lastData>>

envVars == <<impl, req, deep, dns, server, firstRes>>
handlerVars == <<validations, lookups, hpc, result, mxRecords, res>>
loopVars == <<cpc, mxIdx, portIdx, attempt, lastError, customSmtpResult,
              calls, lastResult>>
attemptVars == <<sockets, sock, written, outcome, consumed, timeout,
                 maxConnectionTime, lastData>>

Init ==
    /\ impl \in Impls
    /\ req \in Requests(impl)
    /\ deep \in ValidatorResults
    /\ dns \in DnsAnswers
    /\ server = AnyServer
    /\ firstRes = NoResponse
    /\ abandoned = FALSE
    /\ validations = 0
    /\ lookups = 0
    /\ hpc = "start"
    /\ result = NoResult
    /\ mxRecords = <<>>
    /\ res = NoResponse
    /\ cpc = "idle"
    /\ mxIdx = 0 /\ portIdx = 0 /\ attempt = 0
    /\ lastError = NULL
    /\ customSmtpResult = Pending
    /\ calls = <<>>
    /\ lastResult = Pending
    /\ sockets = 0
    /\ sock = "none"
    /\ written = <<>>
    /\ outcome = Pending
    /\ consumed = TRUE
    /\ timeout = "unset"
    /\ maxConnectionTime = "unset"
    /\ lastData = <<>>

(***************************************************************************)
(* trySmtpConnection: one socket, its callbacks and its timers.            *)
(***************************************************************************)
Indeterminate(why) == [valid |-> NULL, reason |-> why]

\* A resolve that lets a later call replace the value.
resolveOverwrites(value) == outcome' = value

\* resolve(value): a promise keeps the first value it is resolved with.
resolve(value) == outcome' = IF outcome = Pending THEN value ELSE outcome

\* socket.destroy(): no effect on a socket already destroyed or closed.
destroy == sock' = IF sock \in {"connecting", "connected"} THEN "destroyed" ELSE sock

\* The promise executor: new net.Socket(), the handlers, socket.connect and
\* the setTimeout calls.  log is calls so far.
trySmtpConnection(log, mx, port, nth) ==
    /\ calls' = Append(log, [exchange |-> mx.exchange, priority |-> mx.priority,
                             port |-> port, attempt |-> nth, valid |-> UNDEF])
    /\ sockets' = sockets + 1
    /\ sock' = "connecting"
    /\ written' = <<>>
    /\ outcome' = Pending
    /\ consumed' = FALSE
    /\ timeout' = "armed"
    /\ maxConnectionTime' = IF impl = "index" THEN "armed" ELSE "unset"
    /\ lastData' = <<>>

\* A continuation of an await is due: it runs before any socket event or timer.
MicrotaskPending ==
    \/ outcome # Pending /\ ~consumed
    \/ cpc = "returned" /\ hpc = "smtp"

\* The three socket.write calls of the 'connect' handler.
Transcript == <<"HELO", "MAIL FROM", "RCPT TO">>

\* A 'connect' handler that goes on to DATA.
OnConnectWritesData ==
    /\ ~MicrotaskPending
    /\ sock = "connecting"
    /\ server.connects
    /\ sock' = "connected"
    /\ written' = written \o Transcript \o <<"DATA">>
    /\ UNCHANGED <<envVars, abandoned, handlerVars, loopVars, sockets, outcome, consumed,
                   timeout, maxConnectionTime, lastData>>

\* socket.on('connect')
OnConnect ==
    /\ ~MicrotaskPending
    /\ sock = "connecting"
    /\ server.connects
    /\ sock' = "connected"
    /\ written' = written \o Transcript
    /\ UNCHANGED <<envVars, abandoned, handlerVars, loopVars, sockets, outcome, consumed,
                   timeout, maxConnectionTime, lastData>>

\* socket.on('data'): the server sends a reply.
OnData ==
    /\ ~MicrotaskPending
    /\ sock = "connected"
    /\ \E data \in server.replies :
          /\ lastData' = data
          /\ IF DataOutcome(toString(data)) # Pending
             THEN destroy /\ resolve(DataOutcome(toString(data)))
             ELSE UNCHANGED <<sock, outcome>>
    /\ UNCHANGED <<envVars, abandoned, handlerVars, loopVars, sockets, written, consumed,
                   timeout, maxConnectionTime>>

\* A 'timeout' handler that resolves and leaves the socket open.
OnTimeoutKeepsSocket ==
    /\ ~MicrotaskPending
    /\ sock \in {"connecting", "connected"}
    /\ resolve(Indeterminate("SMTP timeout"))
    /\ UNCHANGED <<envVars, abandoned, handlerVars, loopVars, sockets, sock, written,
                   consumed, timeout, maxConnectionTime, lastData>>

\* socket.on('timeout'): the idle timer of socket.setTimeout; destroying a
\* socket stops it.
OnTimeout ==
    /\ ~MicrotaskPending
    /\ sock \in {"connecting", "connected"}
    /\ destroy
    /\ resolve(Indeterminate("SMTP timeout"))
    /\ UNCHANGED <<envVars, abandoned, handlerVars, loopVars, sockets, written, consumed,
                   timeout, maxConnectionTime, lastData>>

\* socket.on('error'): the connection is refused, or reset once established.
\* The socket is destroyed with the error before the handler runs.
OnError ==
    /\ ~MicrotaskPending
    /\ sock \in {"connecting", "connected"}
    /\ IF sock = "connecting" THEN server.refuses ELSE server.resets
    /\ destroy
    /\ resolve(Indeterminate(IF sock = "connecting"
                             THEN "SMTP connection failed: connect ECONNREFUSED"
                             ELSE "SMTP connection failed: read ECONNRESET"))
    /\ UNCHANGED <<envVars, abandoned, handlerVars, loopVars, sockets, written, consumed,
                   timeout, maxConnectionTime, lastData>>

\* The peer closes the connection: the socket ends and is destroyed; no
\* handler of the attempt is registered for 'end'.
PeerEnd ==
    /\ ~MicrotaskPending
    /\ sock = "connected"
    /\ server.ends
    /\ destroy
    /\ UNCHANGED <<envVars, abandoned, handlerVars, loopVars, sockets, written, outcome,
                   consumed, timeout, maxConnectionTime, lastData>>

clearTimeout(timer) == IF timer = "armed" THEN "cleared" ELSE timer

\* socket.on('close'): emitted once, after the socket was destroyed.
OnClose ==
    /\ ~MicrotaskPending
    /\ sock = "destroyed"
    /\ sock' = "closed"
    /\ timeout' = clearTimeout(timeout)
    /\ maxConnectionTime' = clearTimeout(maxConnectionTime)
    /\ UNCHANGED <<envVars, abandoned, handlerVars, loopVars, sockets, written, outcome,
                   consumed, lastData>>

\* A maxConnectionTime callback that resolves and leaves the socket open.
MaxConnectionTimeResolvesOnly ==
    /\ ~MicrotaskPending
    /\ maxConnectionTime = "armed"
    /\ maxConnectionTime' = "fired"
    /\ resolve(Indeterminate("Maximum connection time exceeded"))
    /\ UNCHANGED <<envVars, abandoned, handlerVars, loopVars, sockets, sock, written,
                   consumed, timeout, lastData>>

\* maxConnectionTime = setTimeout(..., 10000)
MaxConnectionTimeFires ==
    /\ ~MicrotaskPending
    /\ maxConnectionTime = "armed"
    /\ maxConnectionTime' = "fired"
    /\ destroy
    /\ resolve(Indeterminate("Maximum connection time exceeded"))
    /\ UNCHANGED <<envVars, abandoned, handlerVars, loopVars, sockets, written, consumed,
                   timeout, lastData>>

\* timeout = setTimeout(..., 10000)
TimeoutFires ==
    /\ ~MicrotaskPending
    /\ timeout = "armed"
    /\ timeout' = "fired"
    /\ destroy
    /\ resolve(Indeterminate("SMTP timeout"))
    /\ UNCHANGED <<envVars, abandoned, handlerVars, loopVars, sockets, written, consumed,
                   maxConnectionTime, lastData>>

(***************************************************************************)
(* customSmtpCheck: the loops over MX records, ports and attempts.         *)
(***************************************************************************)
\* What customSmtpCheck returns for an empty list.
NoMxResult ==
    [valid |-> IF impl = "index" THEN "false" ELSE NULL,
     reason |-> "No valid MX records provided for SMTP check"]

\* What customSmtpCheck returns after the loops end without a return.
ExhaustedResult(err) ==
    IF impl = "index"
    THEN [valid |-> "false", reason |-> "All SMTP checks failed after retries"]
    ELSE [valid |-> NULL,
          reason |-> IF err = NULL THEN "All SMTP checks failed" ELSE err]

\* A loop that returns on success only.
ReturnsOnSuccessOnly(r) == r.valid = "true"

\* if (result.valid === true) return result; if (result.valid === false)
\* return result;   part_001: if (result.valid !== null) return result;
ReturnsAtOnce(r) == r.valid = "true" \/ r.valid = "false"

\* A loop that makes one attempt more than maxRetries on each port.
NextPositionOneMore(m, p, a) ==
    IF a <= Retries(impl) THEN <<m, p, a + 1>>
    ELSE IF p < Len(ports(impl)) THEN <<m, p + 1, 1>>
    ELSE <<m + 1, 1, 1>>

\* The loop position after (m, p, a): the next attempt, port or exchanger;
\* m beyond the list when the loops are over.
NextPosition(m, p, a) ==
    IF a < Retries(impl) THEN <<m, p, a + 1>>
    ELSE IF p < Len(ports(impl)) THEN <<m, p + 1, 1>>
    ELSE <<m + 1, 1, 1>>

\* The handler calls customSmtpCheck(email, mxRecords): the code up to the
\* first await, or to the return for an empty list.
customSmtpCheck ==
    IF Len(mxRecords) = 0
    THEN /\ customSmtpResult' = NoMxResult
         /\ cpc' = "returned"
         /\ UNCHANGED <<mxRecords, mxIdx, portIdx, attempt, calls, attemptVars>>
    ELSE /\ mxRecords' = sortedMxRecords(mxRecords)
         /\ mxIdx' = 1 /\ portIdx' = 1 /\ attempt' = 1
         /\ cpc' = "await"
         /\ trySmtpConnection(calls, mxRecords'[1], ports(impl)[1], 1)
         /\ UNCHANGED customSmtpResult

\* The handler reaches the SMTP check.
StartSmtpCheck ==
    /\ hpc = "smtp" /\ cpc = "idle"
    /\ IF impl = "index" \/ Len(mxRecords) > 0
       THEN customSmtpCheck
       ELSE /\ customSmtpResult' =
                  IF ~result.mx
                  THEN [valid |-> "false", reason |-> "No MX records found by validator"]
                  ELSE [valid |-> NULL, reason |-> "SMTP check skipped"]
            /\ cpc' = "returned"
            /\ UNCHANGED <<mxRecords, mxIdx, portIdx, attempt, calls, attemptVars>>
    /\ UNCHANGED <<envVars, abandoned, validations, lookups, hpc, result, res,
                   lastError, lastResult>>

\* const result = await trySmtpConnection(...) resumes with the outcome, and
\* the loop runs on to its next await or to a return.
SchedulerResume ==
    /\ cpc = "await" /\ outcome # Pending /\ ~consumed
    /\ lastResult' = outcome
    /\ LET log == [calls EXCEPT ![Len(calls)].valid = outcome.valid]
           next == NextPosition(mxIdx, portIdx, attempt)
       IN  IF ReturnsAtOnce(outcome)
           THEN /\ customSmtpResult' = outcome
                /\ cpc' = "returned"
                /\ calls' = log
                /\ consumed' = TRUE
                /\ lastData' = <<>>
                /\ UNCHANGED <<mxIdx, portIdx, attempt, lastError, sockets, sock,
                               written, outcome, timeout, maxConnectionTime>>
           ELSE /\ lastError' = IF impl = "index" THEN lastError ELSE outcome.reason
                /\ IF next[1] <= Len(mxRecords)
                   THEN /\ mxIdx' = next[1] /\ portIdx' = next[2] /\ attempt' = next[3]
                        /\ trySmtpConnection(log, mxRecords[next[1]],
                                             ports(impl)[next[2]], next[3])
                        /\ UNCHANGED <<cpc, customSmtpResult>>
                   ELSE /\ customSmtpResult' = ExhaustedResult(lastError')
                        /\ cpc' = "returned"
                        /\ calls' = log
                        /\ consumed' = TRUE
                        /\ lastData' = <<>>
                        /\ UNCHANGED <<mxIdx, portIdx, attempt, sockets, sock,
                                       written, outcome, timeout, maxConnectionTime>>
    /\ UNCHANGED <<envVars, abandoned, handlerVars>>

(***************************************************************************)
(* The handler of POST /verify-email.                                      *)
(***************************************************************************)
\* A lookup that falls back to the domain itself when it has no MX record.
getMxRecordsImplicitMx(answer) ==
    [threw |-> FALSE,
     records |-> IF answer.ok /\ answer.records # <<>>
                 THEN answer.records
                 ELSE <<[exchange |-> 1, priority |-> 5]>>]

\* A lookup without the try/catch: the rejection of dns.resolveMx escapes.
getMxRecordsNoCatch(answer) ==
    [threw |-> ~answer.ok, records |-> answer.records]

\* getMxRecords(domain): the records, or [] when the query fails; threw says
\* whether its promise rejects.
getMxRecords(answer) ==
    [threw |-> FALSE,
     records |-> IF answer.ok
                 THEN [i \in 1..Len(answer.records) |->
                          [exchange |-> answer.records[i].exchange,
                           priority |-> answer.records[i].priority]]
                 ELSE <<>>]

\* res.status(code).json({ error: ... })
ErrorResponse(code) == [NoResponse EXCEPT !.code = code]

\* A rule lookup that compares the domain as it was written.
DomainRuleCaseSensitive(d) ==
    IF d = "gmail.com" THEN "allow"
    ELSE IF d \in undeliverableDomains THEN "deny"
    ELSE "none"

\* A rule lookup without the undeliverableDomains rule.
DomainRuleAllowOnly(d) ==
    IF toLowerCase(d) = "gmail.com" THEN "allow" ELSE "none"

\* Rule 1 (domain.toLowerCase() === 'gmail.com') and rule 2
\* (undeliverableDomains.includes(domain.toLowerCase())).
DomainRule(d) ==
    IF toLowerCase(d) = "gmail.com" THEN "allow"
    ELSE IF toLowerCase(d) \in undeliverableDomains THEN "deny"
    ELSE "none"

\* The JSON body of rule 1.
AllowVerdict ==
    [code |-> 200, status |-> "deliverable", willBounce |-> FALSE,
     reason |-> "Gmail domain automatically marked as deliverable",
     validSmtp |-> NULL]

\* The JSON body of rule 2.
DenyVerdict ==
    [code |-> 200, status |-> "undeliverable", willBounce |-> TRUE,
     reason |-> "Domain marked as undeliverable by rule",
     validSmtp |-> NULL]

\* The early returns of a handler that has no domain rule.
EarlyResponseWithoutRules ==
    IF impl = "api" /\ req.method # "POST" THEN ErrorResponse(405)
    ELSE IF ~req.email.present \/ ~req.email.isEmail THEN ErrorResponse(400)
    ELSE NoResponse

\* What the handler answers before its first await, NoResponse when it goes
\* on to the validator: the method check (api), the isEmail check, then the
\* two domain rules (part_002, api).
EarlyResponse ==
    IF impl = "api" /\ req.method # "POST" THEN ErrorResponse(405)
    ELSE IF ~req.email.present \/ ~req.email.isEmail THEN ErrorResponse(400)
    ELSE IF impl \in Ruled /\ DomainRule(req.email.domain) = "allow" THEN AllowVerdict
    ELSE IF impl \in Ruled /\ DomainRule(req.email.domain) = "deny" THEN DenyVerdict
    ELSE NoResponse

\* The handler runs up to its first await, or to an early response.
Receive ==
    /\ hpc = "start"
    /\ IF EarlyResponse # NoResponse
       THEN /\ res' = EarlyResponse
            /\ hpc' = "done"
            /\ UNCHANGED validations
       ELSE /\ validations' = validations + 1
            /\ hpc' = "validate"
            /\ UNCHANGED res
    /\ UNCHANGED <<envVars, abandoned, lookups, result, mxRecords, loopVars,
                   attemptVars>>

\* A handler without the try/catch: the validator's throw ends it with no
\* response written.
ValidatorReturnsUncaught ==
    /\ hpc = "validate"
    /\ IF deep.throws
       THEN /\ hpc' = "done"
            /\ UNCHANGED <<res, result, lookups>>
       ELSE /\ hpc' = "mx"
            /\ result' = deep
            /\ lookups' = lookups + 1
            /\ UNCHANGED res
    /\ UNCHANGED <<envVars, abandoned, validations, mxRecords, loopVars,
                   attemptVars>>

\* result = await deepEmailValidator.validate(...) resumes, and the handler
\* calls getMxRecords; a throw is caught and answered with status 500.
ValidatorReturns ==
    /\ hpc = "validate"
    /\ IF deep.throws
       THEN /\ hpc' = "done"
            /\ res' = ErrorResponse(500)
            /\ UNCHANGED <<result, lookups>>
       ELSE /\ hpc' = "mx"
            /\ result' = deep
            /\ lookups' = lookups + 1
            /\ UNCHANGED res
    /\ UNCHANGED <<envVars, abandoned, validations, mxRecords, loopVars,
                   attemptVars>>

\* A body whose willBounce follows the MX records alone.
StaticVerdictBounceOnNoMx(records) ==
    LET hasMxRecords == Len(records) > 0
        valid == hasMxRecords /\ result.regex /\ result.typo /\ result.disposable
    IN  [code |-> 200,
         status |-> IF valid THEN "deliverable" ELSE "undeliverable",
         willBounce |-> ~hasMxRecords,
         reason |-> IF valid THEN "Email is valid with MX records"
                    ELSE IF hasMxRecords
                         THEN "Validation failed (format, typo, or disposable)"
                         ELSE "No MX records found",
         validSmtp |-> NULL]

\* The JSON body of part_002 and api/verify-email.js, from the static checks
\* and the MX records.
StaticVerdict(records) ==
    LET hasMxRecords == Len(records) > 0
        valid == hasMxRecords /\ result.regex /\ result.typo /\ result.disposable
    IN  [code |-> 200,
         status |-> IF valid THEN "deliverable" ELSE "undeliverable",
         willBounce |-> ~valid,
         reason |-> IF valid THEN "Email is valid with MX records"
                    ELSE IF hasMxRecords
                         THEN "Validation failed (format, typo, or disposable)"
                         ELSE "No MX records found",
         validSmtp |-> NULL]

\* mxRecords = await getMxRecords(domain) resumes: part_002 and api answer
\* at once, index.js and part_001 go on to the SMTP check.
MxLookupReturns ==
    /\ hpc = "mx"
    /\ LET got == getMxRecords(dns)
       IN  IF got.threw
           THEN /\ hpc' = "done"
                /\ res' = ErrorResponse(500)
                /\ UNCHANGED mxRecords
           ELSE /\ mxRecords' = got.records
                /\ IF impl \in Probing
                   THEN hpc' = "smtp" /\ UNCHANGED res
                   ELSE hpc' = "done" /\ res' = StaticVerdict(got.records)
    /\ UNCHANGED <<envVars, abandoned, validations, lookups, result, loopVars,
                   attemptVars>>

\* The client closes the inbound connection while the request is in flight.
\* No handler listens to it.
ClientAbandons ==
    /\ ~MicrotaskPending
    /\ hpc \notin {"start", "done"}
    /\ ~abandoned
    /\ abandoned' = TRUE
    /\ UNCHANGED <<envVars, handlerVars, loopVars, attemptVars>>

\* isValid, as the handler computes it from the SMTP result.
isValid(smtp) ==
    IF impl = "index"
    THEN smtp.valid = "true"
    ELSE result.valid /\ (smtp.valid = "true" \/ smtp.valid = NULL
                          \/ (result.mx /\ Len(mxRecords) = 0))

\* The JSON body the handler sends.
Verdict(smtp) ==
    [code |-> 200,
     status |-> IF isValid(smtp) THEN "deliverable" ELSE "undeliverable",
     willBounce |-> ~isValid(smtp),
     reason |->
        IF impl = "index"
        THEN IF isValid(smtp) THEN "Email is valid" ELSE smtp.reason
        ELSE IF isValid(smtp) THEN "Email is valid"
             ELSE IF smtp.reason # "SMTP check skipped" THEN smtp.reason
             ELSE IF result.reason = UNDEF THEN "Email is valid"
             ELSE result.reason,
     validSmtp |-> smtp.valid]

\* customSmtpResult = await customSmtpCheck(...) resumes; res.json(...)
Respond ==
    /\ hpc = "smtp" /\ cpc = "returned"
    /\ res' = Verdict(customSmtpResult)
    /\ hpc' = "done"
    /\ UNCHANGED <<envVars, abandoned, validations, lookups, result, mxRecords,
                   loopVars, attemptVars>>

Next ==
    \/ Receive
    \/ ClientAbandons
    \/ ValidatorReturns
    \/ MxLookupReturns
    \/ StartSmtpCheck
    \/ SchedulerResume
    \/ Respond
    \/ OnConnect
    \/ OnData
    \/ OnTimeout
    \/ OnError
    \/ PeerEnd
    \/ OnClose
    \/ MaxConnectionTimeFires
    \/ TimeoutFires

Spec == Init /\ [][Next]_vars

(***************************************************************************)
(* The same request sent twice, one after the other, to servers of one     *)
(* fixed behaviour.                                                        *)
(***************************************************************************)
RepeatInit ==
    /\ impl \in Probing
    /\ req = [method |-> "POST", email |-> Address(TRUE, "other.test")]
    /\ deep \in ValidatorResults
    /\ dns \in DnsAnswers
    /\ server \in Servers
    /\ firstRes = NoResponse
    /\ abandoned = FALSE
    /\ validations = 0
    /\ lookups = 0
    /\ hpc = "start"
    /\ result = NoResult
    /\ mxRecords = <<>>
    /\ res = NoResponse
    /\ cpc = "idle"
    /\ mxIdx = 0 /\ portIdx = 0 /\ attempt = 0
    /\ lastError = NULL
    /\ customSmtpResult = Pending
    /\ calls = <<>>
    /\ lastResult = Pending
    /\ sockets = 0
    /\ sock = "none"
    /\ written = <<>>
    /\ outcome = Pending
    /\ consumed = TRUE
    /\ timeout = "unset"
    /\ maxConnectionTime = "unset"
    /\ lastData = <<>>

\* The first request has been answered: the client sends it again.  The
\* handler starts afresh, every local of the first request is gone.
SendAgain ==
    /\ hpc = "done"
    /\ firstRes = NoResponse
    /\ sock \in {"none", "closed"}
    /\ firstRes' = res
    /\ abandoned' = FALSE
    /\ validations' = 0
    /\ lookups' = 0
    /\ hpc' = "start"
    /\ result' = NoResult
    /\ mxRecords' = <<>>
    /\ res' = NoResponse
    /\ cpc' = "idle"
    /\ mxIdx' = 0 /\ portIdx' = 0 /\ attempt' = 0
    /\ lastError' = NULL
    /\ customSmtpResult' = Pending
    /\ calls' = <<>>
    /\ lastResult' = Pending
    /\ sockets' = 0
    /\ sock' = "none"
    /\ written' = <<>>
    /\ outcome' = Pending
    /\ consumed' = TRUE
    /\ timeout' = "unset"
    /\ maxConnectionTime' = "unset"
    /\ lastData' = <<>>
    /\ UNCHANGED <<impl, req, deep, dns, server>>

RepeatNext == Next \/ SendAgain

RepeatSpec == RepeatInit /\ [][RepeatNext]_vars

\* The event loop runs every callback that is due: a timer that is armed
\* fires, 'close' follows a destroy, and a continuation of a resolved promise
\* runs.  What the DNS, the validator and the peer do is not in its hands,
\* but the two awaited library calls return.
Fairness ==
    /\ WF_vars(Receive)
    /\ WF_vars(ValidatorReturns)
    /\ WF_vars(MxLookupReturns)
    /\ WF_vars(StartSmtpCheck)
    /\ WF_vars(SchedulerResume)
    /\ WF_vars(Respond)
    /\ WF_vars(OnTimeout)
    /\ WF_vars(OnClose)
    /\ WF_vars(MaxConnectionTimeFires)
    /\ WF_vars(TimeoutFires)

FairSpec == Init /\ [][Next]_vars /\ Fairness

(***************************************************************************)
(* Properties.                                                             *)
(***************************************************************************)
Decisive(v) == v = "true" \/ v = "false"

\* The place of a port in the configured list.
PortIndex(p) == CHOOSE k \in 1..Len(ports(impl)) : ports(impl)[k] = p

\* The number of attempts the loops allow for the list at hand.
Budget == Len(mxRecords) * Len(ports(impl)) * Retries(impl)

\* The leading 3-digit status code of a reply line: its first three
\* characters when the line ends there or goes on with a space or a hyphen.
LeadingCode(line) ==
    IF Len(line) >= 3 /\ (Len(line) = 3 \/ line[4] \in {" ", "-"})
    THEN SubSeq(line, 1, 3)
    ELSE <<>>

\* A reply classified by the first line whose leading code is decisive.
RECURSIVE ClassifyByLeadingCode(_)
ClassifyByLeadingCode(lines) ==
    IF lines = <<>> THEN NULL
    ELSE IF LeadingCode(Head(lines)) \in {D220, D250} THEN "true"
    ELSE IF LeadingCode(Head(lines)) \in {D550, D554} THEN "false"
    ELSE ClassifyByLeadingCode(Tail(lines))

\* C1: once a trySmtpConnection call has returned a decisive outcome, it is
\* the last call of the request and customSmtpCheck has returned that very
\* outcome, whatever exchangers, ports and retries remain.
C1_DecisiveStops ==
    \A i \in 1..Len(calls) :
        Decisive(calls[i].valid) =>
            /\ i = Len(calls)
            /\ cpc = "returned"
            /\ customSmtpResult = lastResult
            /\ customSmtpResult.valid = calls[i].valid

\* C1's case: a decisive answer came after an inconclusive attempt, with
\* budget left over.
C1_Witness ==
    /\ cpc = "returned"
    /\ Len(calls) >= 2
    /\ Len(calls) < Budget
    /\ calls[Len(calls)].valid = "false"
    /\ customSmtpResult = Rejected

\* C2: the calls of one request are ordered by ascending MX priority, then
\* by port in configured order, then by attempt number 1..maxRetries, and an
\* exchanger is probed only after every (port, attempt) of every exchanger
\* of smaller priority number has returned Indeterminate.
C2_ProbeOrder ==
    /\ \A i \in 1..Len(calls) :
          /\ calls[i].attempt \in 1..Retries(impl)
          /\ \E k \in 1..Len(ports(impl)) : ports(impl)[k] = calls[i].port
    /\ \A i \in 1..(Len(calls) - 1) :
          LET a == calls[i]
              b == calls[i + 1]
          IN  IF a.exchange = b.exchange
              THEN IF a.port = b.port
                   THEN b.attempt = a.attempt + 1
                   ELSE /\ PortIndex(b.port) = PortIndex(a.port) + 1
                        /\ a.attempt = Retries(impl)
                        /\ b.attempt = 1
              ELSE /\ a.priority <= b.priority
                   /\ a.attempt = Retries(impl)
                   /\ PortIndex(a.port) = Len(ports(impl))
                   /\ b.attempt = 1
                   /\ PortIndex(b.port) = 1
    /\ \A j \in 1..Len(calls) :
          \A r \in 1..Len(dns.records) :
              dns.records[r].priority < calls[j].priority =>
                  \A k \in 1..Len(ports(impl)) :
                      \A n \in 1..Retries(impl) :
                          \E i \in 1..(j - 1) :
                              /\ calls[i].exchange = dns.records[r].exchange
                              /\ calls[i].port = ports(impl)[k]
                              /\ calls[i].attempt = n
                              /\ calls[i].valid = NULL

\* C2's case: the DNS answer lists priority 10 before priority 5, and the
\* exchanger of priority 10 is being probed on its second port.
C2_Witness ==
    /\ impl = "index"
    /\ Len(dns.records) = 2
    /\ dns.records[1].priority = 10
    /\ dns.records[2].priority = 5
    /\ Len(calls) = 10
    /\ calls[1].exchange = 2
    /\ calls[10].exchange = 1
    /\ calls[10].port = 587

\* C3: every call of trySmtpConnection eventually resolves with an outcome,
\* whatever the server and the network do.
C3_AttemptResolves == (cpc = "await" /\ outcome = Pending) ~> (outcome # Pending)

\* C4: once a data event has resolved the attempt as Accepted or Rejected,
\* no later callback changes the outcome, and the outcome customSmtpCheck
\* returns is that one.
C4_FirstResolveWins ==
    [][Decisive(outcome.valid) =>
          /\ outcome' = outcome
          /\ (cpc' = "returned" => customSmtpResult' = outcome)]_vars

\* C4's case: a timer fired after the data handler had resolved the attempt
\* as Rejected, and the request was answered from the data handler's outcome.
C4_Witness ==
    /\ outcome = Rejected
    /\ timeout = "fired"
    /\ hpc = "done"
    /\ res.validSmtp = "false"

\* C5: every call connects exactly one socket, and in every state in which
\* the attempt's outcome is resolved its socket has been destroyed.
C5_OneSocketDestroyed ==
    /\ sockets = Len(calls)
    /\ outcome # Pending => sock \in {"destroyed", "closed"}
    /\ sock \in {"connecting", "connected"} => cpc = "await"

\* C5's case: the third attempt of the request ended by the socket's idle
\* timeout, and its socket is destroyed.
C5_Witness ==
    /\ sockets = 3
    /\ outcome = Indeterminate("SMTP timeout")
    /\ timeout = "armed"
    /\ sock = "destroyed"

\* C6: a reply is classified by the leading status code of its first decisive
\* line: 220 or 250 resolves Accepted, 550 or 554 resolves Rejected, and a
\* reply with no such line resolves neither, whatever digits its text holds.
C6_LeadingCodeDecides ==
    lastData # <<>> =>
        outcome.valid \in
            (CASE ClassifyByLeadingCode(lastData) = "true" -> {"true"}
               [] ClassifyByLeadingCode(lastData) = "false" -> {"false"}
               [] OTHER -> {UNDEF, NULL})

\* C7: an attempt that ends by a timeout, by a transport error, or after a
\* reply with no decisive leading code (4xx, malformed) resolves
\* Indeterminate, never Rejected.
C7_FailuresAreIndeterminate ==
    (/\ outcome # Pending
     /\ ~consumed
     /\ (lastData = <<>> \/ ClassifyByLeadingCode(lastData) = NULL))
        => outcome.valid # "false" /\ outcome.valid = NULL

\* C8: when the DNS gives no MX record, or the list the handler holds is
\* empty, trySmtpConnection is never called and no socket is opened.
C8_NoExchangersNoProbe ==
    (\/ ~dns.ok
     \/ dns.records = <<>>
     \/ (hpc \in {"smtp", "done"} /\ mxRecords = <<>>))
        => calls = <<>> /\ sockets = 0 /\ sock = "none"

\* C8's case: the lookup failed and the request was answered without a probe.
C8_Witness ==
    /\ impl \in Probing
    /\ ~dns.ok
    /\ hpc = "done"
    /\ res.code = 200
    /\ calls = <<>>

\* C9: when every attempt returned Indeterminate, customSmtpCheck returns an
\* Indeterminate result carrying the reason of the last attempt.
C9_ExhaustedIsIndeterminate ==
    (/\ cpc = "returned"
     /\ calls # <<>>
     /\ \A i \in 1..Len(calls) : calls[i].valid = NULL)
        => /\ customSmtpResult.valid = NULL
           /\ customSmtpResult.reason = lastResult.reason

\* C10: when the probe was Indeterminate or the domain has no exchangers,
\* and the format check passed, the verdict of a probing handler is neither
\* 'deliverable' nor 'undeliverable'.
C10_IndeterminateIsUnknown ==
    (/\ impl \in Probing
     /\ hpc = "done"
     /\ res.code = 200
     /\ result.regex
     /\ \A i \in 1..Len(calls) : calls[i].valid = NULL)
        => res.status \notin {"deliverable", "undeliverable"}

\* The outcome of the probe: that of the last attempt made.
ProbeOutcome == calls[Len(calls)].valid

\* C11: in a probing handler, when the format check passed, a Rejected probe
\* gives 'undeliverable' with the probe's reason and an Accepted probe gives
\* 'deliverable' with the reason 'Email is valid', whatever the mx, typo and
\* disposable checks said.
C11_ProbeDecidesVerdict ==
    (/\ impl \in Probing
     /\ hpc = "done"
     /\ res.code = 200
     /\ result.regex
     /\ calls # <<>>)
        => /\ ProbeOutcome = "false" =>
                /\ res.status = "undeliverable"
                /\ res.reason = lastResult.reason
           /\ ProbeOutcome = "true" =>
                /\ res.status = "deliverable"
                /\ res.reason = "Email is valid"

\* C12: in every verdict a handler sends, on the allowlist, denylist,
\* static-only and SMTP-probed paths alike, willBounce is true exactly when
\* the status is 'undeliverable'.
C12_BounceIffUndeliverable ==
    (hpc = "done" /\ res.code = 200)
        => (res.willBounce <=> res.status = "undeliverable")

\* C12's case: a static-only verdict that is undeliverable although the
\* domain has MX records.
C12_Witness ==
    /\ impl \in Ruled
    /\ DomainRule(req.email.domain) = "none"
    /\ hpc = "done"
    /\ res.code = 200
    /\ mxRecords # <<>>
    /\ res.status = "undeliverable"
    /\ res.willBounce

\* A request the handler takes past its method and isEmail checks.
Admitted == req.method = "POST" /\ req.email.present /\ req.email.isEmail

\* The domain of the address, as the rules compare it.
RuleDomain == toLowerCase(req.email.domain)

\* No validator call, no MX lookup and no SMTP connection has been made.
NothingInvoked ==
    validations = 0 /\ lookups = 0 /\ sockets = 0 /\ calls = <<>>

C16_FormatGatesNetwork ==
    (validations > 0 /\ hpc # "validate" /\ ~deep.throws /\ ~deep.regex)
        => /\ lookups = 0
           /\ sockets = 0
           /\ (hpc = "done" /\ res.code = 200) => res.status = "undeliverable"

\* C17: getMxRecords never rejects and gives [] when the query fails; a
\* request whose lookup failed is not answered with an error for it.
C17_LookupFailureIsEmptyList ==
    /\ \A a \in DnsAnswers :
          /\ ~getMxRecords(a).threw
          /\ ~a.ok => getMxRecords(a).records = <<>>
    /\ (lookups > 0 /\ hpc # "mx" /\ ~dns.ok) =>
          /\ mxRecords = <<>>
          /\ hpc = "done" => res.code = 200

\* C17's case: the lookup failed and the static handler answered with the
\* verdict for a domain without MX records.
C17_Witness ==
    /\ impl \in Ruled
    /\ ~dns.ok
    /\ lookups = 1
    /\ hpc = "done"
    /\ res.code = 200
    /\ res.reason = "No MX records found"

\* C18: a request with an address isEmail accepts never ends in an error
\* response, whatever the validator, the DNS and the sockets do.
C18_NoFaultForValidAddress ==
    (Admitted /\ hpc = "done") => res.code = 200

\* Every attempt of the probe was Indeterminate and the loops are over.
Exhausted ==
    /\ cpc = "returned"
    /\ calls # <<>>
    /\ \A i \in 1..Len(calls) : calls[i].valid = NULL

\* C19: the result customSmtpCheck returns on exhaustion differs from a
\* rejection in its valid field, and its reason is neither the rejection's
\* nor that of an attempt.
C19_ExhaustedIsNotRejected ==
    Exhausted =>
        /\ customSmtpResult.valid # Rejected.valid
        /\ customSmtpResult.reason # Rejected.reason
        /\ customSmtpResult.reason # lastResult.reason

\* C20: when the client abandons the request while a socket is open, the
\* socket is destroyed in that very step, and no socket is opened for the
\* request afterwards.
C20_AbandonCancels ==
    [][/\ (abandoned' /\ ~abandoned) => sock' \notin {"connecting", "connected"}
       /\ abandoned => sockets' = sockets]_vars

\* C21: a trySmtpConnection call is made only when no socket of the request
\* is open, and, but for the first call, when the promise of the previous
\* call is resolved.
C21_OneAttemptInFlight ==
    [][sockets' > sockets =>
          /\ sock \notin {"connecting", "connected"}
          /\ sockets > 0 => outcome # Pending]_vars

\* C21's case: a second attempt has been started.
C21_Witness ==
    /\ sockets >= 2
    /\ sock = "connecting"
    /\ outcome = Pending

\* C22: the second of two identical requests, run against the same DNS
\* answer, validator result and server behaviour, is answered as the first
\* was, in whatever order the callbacks and timers of the attempts fired.
C22_SameRequestSameVerdict ==
    (firstRes # NoResponse /\ hpc = "done") =>
        /\ res.code = firstRes.code
        /\ res.status = firstRes.status
        /\ res.willBounce = firstRes.willBounce
        /\ res.reason = firstRes.reason

\* The calls made to exchanger e on port p.
CallsTo(e, p) ==
    {i \in 1..Len(calls) : calls[i].exchange = e /\ calls[i].port = p}

\* The place of the loops' position in the order MX record, port, attempt.
Rank ==
    ((mxIdx - 1) * Len(ports(impl)) + (portIdx - 1)) * Retries(impl) + attempt

\* C23: for n MX records customSmtpCheck makes at most n x 2 x 3 calls, at
\* most 3 to any exchanger and port, and exactly as many as the loop allows
\* (3 in index.js) where all of them were Indeterminate; every call is made
\* at the next position of the loops, so that the calls end, and the
\* function has returned once the call at the last position has resolved.
C23_AttemptBudget ==
    /\ Len(calls) <= Len(mxRecords) * 2 * 3
    /\ Len(calls) <= Budget
    /\ \A e \in Hosts, p \in {25, 587} :
          /\ Cardinality(CallsTo(e, p)) <= 3
          /\ (/\ CallsTo(e, p) # {}
              /\ \A i \in CallsTo(e, p) : calls[i].valid = NULL)
                => /\ Cardinality(CallsTo(e, p)) = Retries(impl)
                   /\ impl = "index" => Cardinality(CallsTo(e, p)) = maxRetries
    /\ cpc = "await" => Len(calls) = Rank
    /\ (calls # <<>> /\ calls[Len(calls)].valid # UNDEF) =>
          /\ cpc = "returned"
          /\ customSmtpResult # Pending

\* C23's case: two MX records, every attempt Indeterminate: 12 calls were
\* made and customSmtpCheck has returned.
C23_Witness ==
    /\ impl = "index"
    /\ Len(mxRecords) = 2
    /\ Len(calls) = 12
    /\ Exhausted

\* C24: what has been written to a socket is nothing or the three
\* commands HELO, MAIL FROM, RCPT TO in that order; it is nothing while the
\* socket has not connected, and the one step that writes is the 'connect'
\* event of a socket not written to before.
C24_FixedTranscript ==
    /\ [](/\ written \in {<<>>, Transcript}
          /\ sock \in {"none", "connecting"} => written = <<>>)
    /\ [][written' # written =>
             \/ sockets' > sockets /\ written' = <<>>
             \/ /\ sock = "connecting" /\ sock' = "connected"
                /\ written = <<>>
                /\ written' = Transcript]_vars

\* C24's case: the second socket of a request has connected and been
\* written to.
C24_Witness ==
    /\ sockets >= 2
    /\ sock = "connected"
    /\ written = Transcript

\* C25: a handler that has finished has written a response, a response is
\* written only by a handler that has written none and finishes with it, and
\* when customSmtpCheck returns whenever it is awaited (the validator and
\* the MX lookup return or throw by fairness) every request is answered.
C25_ExactlyOneResponse ==
    /\ [](hpc = "done" <=> res # NoResponse)
    /\ [][res' # res => (res = NoResponse /\ hpc # "done" /\ hpc' = "done")]_vars
    /\ ((cpc = "await") ~> (cpc = "returned")) => <>(hpc = "done")

\* C25's case: the validator threw and the request was answered 500.
C25_Witness ==
    /\ Admitted
    /\ deep.throws
    /\ hpc = "done"
    /\ res = ErrorResponse(500)

====
